---- MODULE Spec2Model ----
(***************************************************************************)
(* Fiindo ETL pipeline: the API client's retry loop (FiindoAPI._get), the  *)
(* symbol fetcher's fan-out and idempotent ticker insert, the orchestrator *)
(* run_etl and the persistence writer (snapshot and history tables).       *)
(*                                                                         *)
(* Four specifications share the module:                                   *)
(*   SpecGet     one call of FiindoAPI._get, attempt by attempt;           *)
(*   Spec        a sequence of run_etl runs against one database;          *)
(*   SpecCalc    one call of Calculator.calculate_all on three responses;  *)
(*   SpecWriter  a sequence of DBWriter calls against one database.        *)
(* An optional value (Python None or a value) is a sequence of length 0    *)
(* or 1.                                                                   *)
(***************************************************************************)
EXTENDS Integers, Sequences, FiniteSets, TLC

VARIABLES
    \* ---- FiindoAPI._get (SpecGet) ----
    max_retries,          \* self.max_retries
    backoff_seconds,      \* self.backoff_seconds
    retry_status_codes,   \* self.retry_status_codes
    attempts,             \* local attempts
    g_pc,                 \* "idle" | "running" | "returned" | "raised"
    g_result,             \* what the call returned or raised
    g_sleeps,             \* the time.sleep durations of the call, in order
    g_log,                \* the responses of the attempts, in order
    \* ---- database (Spec) ----
    tickers,                  \* table tickers, id = position
    ticker_stats,             \* table ticker_stats
    ticker_stats_history,     \* table ticker_stats_history
    industry_stats,           \* table industry_stats
    industry_stats_history,   \* table industry_stats_history
    \* ---- run_etl (Spec) ----
    pc,               \* position of run_etl
    runs,             \* number of runs started
    clock,            \* datetime.utcnow()
    fetch_workers,    \* max_workers of the fetch executor (MAX_FETCH_WORKERS)
    calc_workers,     \* max_workers of the calculation executor (MAX_WORKERS)
    symbols,          \* the list /symbols returned
    general,          \* per submitted symbol: the outcome of its /general request
    fstate,           \* per submitted symbol: "queued" | "running" | "retrying" | "done"
    valid,            \* fetch_and_filter_symbols: valid
    etl_symbols,      \* run_etl: symbols (the list fetch returned)
    cstate,           \* per calculation future: "queued" | "running" | "retrying" | "done"
    results,          \* run_etl: results
    saved,            \* number of results already passed to save_ticker_stats
    unauthorized,     \* a request of this run was answered 401
    crash,            \* the exception that ended the run, "" when none
    speedboost_posts, \* POST /speedboost requests issued by the run
    completed_ticker_stats,    \* ticker_stats as the last completed run left it
    completed_industry_stats,  \* industry_stats as the last completed run left it
    \* ---- Calculator.calculate_all (SpecCalc) ----
    c_pc,             \* "idle" | "called" | "done"
    c_in,             \* the three responses the api hands to calculate_all
    c_out,            \* what calculate_all returned or that it raised
    \* ---- DBWriter driven directly (SpecWriter) ----
    w_calls,          \* number of calls made so far
    w_op,             \* the last call: its name and arguments
    w_log,            \* the names of the calls made, in order
    w_aggs            \* per aggregate_industries call, the rows it added

getVars == <<max_retries, backoff_seconds, retry_status_codes, attempts, g_pc,
             g_result, g_sleeps, g_log>>

dbVars == <<tickers, ticker_stats, ticker_stats_history, industry_stats,
            industry_stats_history>>

runVars == <<pc, runs, clock, fetch_workers, calc_workers, symbols, general, fstate,
             valid, etl_symbols, cstate, results, saved, unauthorized, crash,
             speedboost_posts, completed_ticker_stats, completed_industry_stats>>

calcVars == <<c_pc, c_in, c_out>>

writerVars == <<w_calls, w_op, w_log, w_aggs>>

\* The variables run_etl never touches.
unitVars == <<getVars, calcVars, writerVars>>

vars == <<getVars, dbVars, runVars, calcVars, writerVars>>

None == <<>>

Some(v) == <<v>>

RECURSIVE SeqSum(_)
SeqSum(s) == IF s = <<>> THEN 0 ELSE Head(s) + SeqSum(Tail(s))

Range(s) == {s[i] : i \in 1..Len(s)}

(***************************************************************************)
(* FiindoAPI._get                                                          *)
(***************************************************************************)

\* Bound on the configured retry count.
MaxRetriesBound == 2

\* Cap on the attempts of one call: the loop itself has no bound when a
\* status falls through raise_for_status.
MaxAttempts == MaxRetriesBound + 2

MAX_RETRIES_DEFAULT == 3

BACKOFF_SECONDS_DEFAULT == 30

RETRY_STATUS_CODES_DEFAULT == {429, 500}

\* Configurations of the retry set: the default, and two other sets of error
\* statuses an environment may configure.
RetrySets == {RETRY_STATUS_CODES_DEFAULT, {404, 429, 500}, {503}}

BackoffChoices == {BACKOFF_SECONDS_DEFAULT, 5}

Statuses == {200, 204, 401, 404, 429, 500, 503}

\* What one session.get can produce: requests.Timeout, or a response with a
\* status code whose body decodes as JSON or not.
Responses ==
    {[timeout |-> TRUE, status |-> 0, json_ok |-> FALSE]}
    \cup {[timeout |-> FALSE, status |-> s, json_ok |-> TRUE] : s \in Statuses}
    \cup {[timeout |-> FALSE, status |-> 200, json_ok |-> FALSE]}

IsTimeout(r) == r.timeout

\* requests.Response.raise_for_status: raises HTTPError for 4xx and 5xx only.
raise_for_status(status) == status >= 400 /\ status < 600

GiveUp_OffByOne(n, max) == n >= max

\* `if attempts > self.max_retries`
GiveUp(n, max) == n > max

NonRetry_404Raises(status) ==
    IF status = 401 THEN "raise_unauthorized"
    ELSE IF raise_for_status(status) THEN "raise_http"
    ELSE "fall_through"

\* The "Non-retry conditions" and "Unknown error" part of the loop body.
NonRetry(status) ==
    IF status = 404 THEN "return_none"
    ELSE IF status = 401 THEN "raise_unauthorized"
    ELSE IF raise_for_status(status) THEN "raise_http"
    ELSE "fall_through"

\* One pass through the loop body, attempts already incremented to n.
Classify(r, n, max, retry) ==
    IF IsTimeout(r)
    THEN IF GiveUp(n, max) THEN "return_none" ELSE "sleep_retry"
    ELSE IF r.status = 200
    THEN IF r.json_ok THEN "return_body" ELSE "raise_decode"
    ELSE IF r.status \in retry
    THEN IF GiveUp(n, max) THEN "return_none" ELSE "sleep_retry"
    ELSE NonRetry(r.status)

GetInit ==
    /\ max_retries = MAX_RETRIES_DEFAULT
    /\ backoff_seconds = BACKOFF_SECONDS_DEFAULT
    /\ retry_status_codes = RETRY_STATUS_CODES_DEFAULT
    /\ attempts = 0
    /\ g_pc = "idle"
    /\ g_result = "none"
    /\ g_sleeps = <<>>
    /\ g_log = <<>>

\* FiindoAPI(...) followed by a call of _get: attempts = 0.
GetCall(m, b, rs) ==
    /\ g_pc = "idle"
    /\ max_retries' = m
    /\ backoff_seconds' = b
    /\ retry_status_codes' = rs
    /\ attempts' = 0
    /\ g_pc' = "running"
    /\ g_result' = "none"
    /\ g_sleeps' = <<>>
    /\ g_log' = <<>>

\* One iteration of `while True` with the response r of session.get.
GetAttempt(r) ==
    /\ g_pc = "running"
    /\ attempts < MaxAttempts
    /\ attempts' = attempts + 1
    /\ g_log' = Append(g_log, r)
    /\ LET out == Classify(r, attempts + 1, max_retries, retry_status_codes) IN
        /\ g_pc' = CASE out \in {"return_body", "return_none"} -> "returned"
                     [] out \in {"raise_decode", "raise_unauthorized", "raise_http"} -> "raised"
                     [] OTHER -> "running"
        /\ g_result' = CASE out = "return_body" -> "body"
                         [] out = "return_none" -> "none"
                         [] out = "raise_decode" -> "decode_error"
                         [] out = "raise_unauthorized" -> "unauthorized"
                         [] out = "raise_http" -> "http_error"
                         [] OTHER -> g_result
        /\ g_sleeps' = IF out = "sleep_retry" THEN Append(g_sleeps, backoff_seconds)
                       ELSE g_sleeps
    /\ UNCHANGED <<max_retries, backoff_seconds, retry_status_codes>>

(***************************************************************************)
(* Data of the pipeline                                                    *)
(***************************************************************************)

\* Bound on the number of run_etl runs against the database.
MaxRuns == 2

\* Bound on the length of the list /symbols returns.
MaxSymbols == 2

\* The configured pool sizes (MAX_FETCH_WORKERS, MAX_WORKERS) range over
\* 1..MaxPool: a pool larger than the list behaves as one of its size.
MaxPool == MaxSymbols

Symbols == {"A", "B"}

RECURSIVE SeqsUpTo(_, _)
SeqsUpTo(S, n) ==
    IF n = 0 THEN {<<>>}
    ELSE LET shorter == SeqsUpTo(S, n - 1) IN
         shorter \cup {Append(q, x) : q \in {t \in shorter : Len(t) = n - 1}, x \in S}

\* The lists /symbols may return: any order, duplicates included.
SymbolLists == SeqsUpTo(Symbols, MaxSymbols)

TARGET_INDUSTRIES ==
    {"Banks - Diversified", "Software - Application", "Consumer Electronics"}

InfoBank == [industry |-> "Banks - Diversified", companyName |-> "Co1", exchange |-> "X1"]

InfoSoft == [industry |-> "Software - Application", companyName |-> "Co2", exchange |-> "X2"]

InfoOther == [industry |-> "Oil & Gas", companyName |-> "Co3", exchange |-> "X1"]

\* fundamentals.profile.data of a /general body.
ProfileLists == {<<>>, <<InfoBank>>, <<InfoSoft>>, <<InfoOther, InfoBank>>}

\* The outcome of one api.get_general(symbol): what _get returned or raised
\* (the values of g_result; "http_error" stands for either exception that is
\* not the 401 one), and for a body its profile list, or malformed (a body
\* that is not the nested dict the worker walks).
Pending == [result |-> "pending", malformed |-> FALSE, profile |-> <<>>]

GeneralOutcomes ==
    {[result |-> r, malformed |-> FALSE, profile |-> <<>>] :
        r \in {"none", "unauthorized", "http_error"}}
    \cup {[result |-> "body", malformed |-> TRUE, profile |-> <<>>]}
    \cup {[result |-> "body", malformed |-> FALSE, profile |-> p] : p \in ProfileLists}

Raises(out) == out.result \in {"unauthorized", "http_error", "decode_error"}

\* Metric values as calculate_all returns them; each field a float or None.
Stats1 ==
    [pe_ratio |-> Some(10), revenue_growth |-> Some(2), net_income_ttm |-> Some(57),
     debt_ratio |-> Some(2), latest_revenue |-> Some(100)]

Stats2 ==
    [pe_ratio |-> None, revenue_growth |-> Some(4), net_income_ttm |-> None,
     debt_ratio |-> Some(1), latest_revenue |-> Some(300)]

StatsSamples == {Stats1, Stats2}

\* The requests one calculate_all issues, in order (income statement, balance
\* sheet, end of day), each with its outcome; a request is issued only when
\* the ones before it returned usable bodies.  "bad_body" is a 200 body the
\* calculator cannot use (wrong shape, fewer than 4 quarters, no FY row,
\* empty price list).
CalcKinds == {"body", "bad_body", "none", "unauthorized", "http_error"}

CalcRequestRuns ==
    {<<k>> : k \in CalcKinds}
    \cup {<<"body", k>> : k \in CalcKinds}
    \cup {<<"body", "body", k>> : k \in CalcKinds}

(***************************************************************************)
(* SymbolFetcher                                                           *)
(***************************************************************************)

Entry(symbol, info) ==
    [symbol |-> symbol, company |-> info.companyName, industry |-> info.industry,
     exchange |-> info.exchange]

process_symbol_try_LastProfile(symbol, out) ==
    IF Raises(out) THEN [raised |-> TRUE, val |-> None]
    ELSE IF out.result = "none" THEN [raised |-> FALSE, val |-> None]
    ELSE IF out.malformed THEN [raised |-> TRUE, val |-> None]
    ELSE IF out.profile = <<>> THEN [raised |-> FALSE, val |-> None]
    ELSE LET info == out.profile[Len(out.profile)] IN
         IF info.industry \notin TARGET_INDUSTRIES
         THEN [raised |-> FALSE, val |-> None]
         ELSE [raised |-> FALSE, val |-> Some(Entry(symbol, info))]

\* The try block of the worker: the dict to return, None, or an exception
\* (raised by _get, or by walking a malformed body).
process_symbol_try(symbol, out) ==
    IF Raises(out) THEN [raised |-> TRUE, val |-> None]
    ELSE IF out.result = "none" THEN [raised |-> FALSE, val |-> None]
    ELSE IF out.malformed THEN [raised |-> TRUE, val |-> None]
    ELSE IF out.profile = <<>> THEN [raised |-> FALSE, val |-> None]
    ELSE LET info == out.profile[1] IN
         IF info.industry \notin TARGET_INDUSTRIES
         THEN [raised |-> FALSE, val |-> None]
         ELSE [raised |-> FALSE, val |-> Some(Entry(symbol, info))]

process_symbol_NoCatch(symbol, out) == process_symbol_try(symbol, out)

\* The worker with its `except Exception: return None`.
process_symbol(symbol, out) ==
    LET r == process_symbol_try(symbol, out) IN
    IF r.raised THEN [raised |-> FALSE, val |-> None] ELSE r

\* The session of SymbolFetcher: the committed rows it reads (autoflush is
\* off, so a query never sees the pending objects) and the pending inserts.
Session(rows) == [rows |-> rows, pending |-> <<>>]

Ticker(entry) ==
    [symbol |-> entry.symbol, company |-> entry.company, industry |-> entry.industry,
     exchange |-> entry.exchange]

store_ticker_Upsert(sess, entry) ==
    LET hit == {i \in 1..Len(sess.rows) : sess.rows[i].symbol = entry.symbol} IN
    IF hit # {}
    THEN [sess EXCEPT !.rows = [i \in 1..Len(sess.rows) |->
                                  IF i \in hit THEN Ticker(entry) ELSE sess.rows[i]]]
    ELSE [sess EXCEPT !.pending = Append(sess.pending, Ticker(entry))]

\* SymbolFetcher._store_ticker
_store_ticker(sess, entry) ==
    LET existing == {i \in 1..Len(sess.rows) : sess.rows[i].symbol = entry.symbol} IN
    IF existing # {} THEN sess
    ELSE [sess EXCEPT !.pending = Append(sess.pending, Ticker(entry))]

\* `for entry in valid: self._store_ticker(...)`
RECURSIVE StoreAll(_, _)
StoreAll(sess, entries) ==
    IF entries = <<>> THEN sess
    ELSE StoreAll(_store_ticker(sess, Head(entries)), Tail(entries))

\* The UNIQUE constraint on tickers.symbol, checked when the commit flushes.
IntegrityError(sess) ==
    LET all == sess.rows \o sess.pending IN
    \E i, j \in 1..Len(all) : i # j /\ all[i].symbol = all[j].symbol

Commit(sess) == sess.rows \o sess.pending

(***************************************************************************)
(* Calculator, as run_etl's worker sees it                                 *)
(***************************************************************************)

\* What the future of the calculation worker holds for the requests `reqs`
\* calculate_all issued: an exception of _get propagates (calculate_all does
\* not catch it), a missing or unusable body gives None, three usable bodies
\* give the metrics m.
calc_future(reqs, m) ==
    LET last == reqs[Len(reqs)] IN
    IF last \in {"unauthorized", "http_error"} THEN [raised |-> TRUE, val |-> None]
    ELSE IF last \in {"none", "bad_body"} THEN [raised |-> FALSE, val |-> None]
    ELSE IF Len(reqs) < 3 THEN [raised |-> FALSE, val |-> None]
    ELSE [raised |-> FALSE, val |-> Some(m)]

(***************************************************************************)
(* DBWriter                                                                *)
(***************************************************************************)

clear_current_tables_OnlyTickerStats ==
    /\ ticker_stats' = <<>>
    /\ UNCHANGED <<tickers, industry_stats, ticker_stats_history, industry_stats_history>>

clear_current_tables_OnlyIndustryStats ==
    /\ industry_stats' = <<>>
    /\ UNCHANGED <<tickers, ticker_stats, ticker_stats_history, industry_stats_history>>

clear_current_tables_AlsoHistory ==
    /\ ticker_stats' = <<>>
    /\ industry_stats' = <<>>
    /\ ticker_stats_history' = <<>>
    /\ industry_stats_history' = <<>>
    /\ UNCHANGED tickers

\* DBWriter.clear_current_tables: both deletes in one commit.
clear_current_tables ==
    /\ ticker_stats' = <<>>
    /\ industry_stats' = <<>>
    /\ UNCHANGED <<tickers, ticker_stats_history, industry_stats_history>>

TickerStatsRow(id, stats, now) ==
    [ticker_id |-> id, pe_ratio |-> stats.pe_ratio,
     revenue_growth |-> stats.revenue_growth, net_income_ttm |-> stats.net_income_ttm,
     debt_ratio |-> stats.debt_ratio, latest_revenue |-> stats.latest_revenue,
     at |-> now]

save_ticker_stats_NoLookup(symbol, stats) ==
    LET found == {i \in 1..Len(tickers) : tickers[i].symbol = symbol}
        id == IF found = {} THEN 0 ELSE CHOOSE i \in found : TRUE
        now == clock
    IN /\ ticker_stats' = Append(ticker_stats, TickerStatsRow(id, stats, now))
       /\ ticker_stats_history' =
              Append(ticker_stats_history, TickerStatsRow(id, stats, now))
       /\ clock' = clock + 1
       /\ UNCHANGED <<tickers, industry_stats, industry_stats_history>>

save_ticker_stats_TwoClocks(symbol, stats) ==
    LET found == {i \in 1..Len(tickers) : tickers[i].symbol = symbol} IN
    IF found = {}
    THEN UNCHANGED <<dbVars, clock>>
    ELSE LET id == CHOOSE i \in found : TRUE IN
         /\ ticker_stats' = Append(ticker_stats, TickerStatsRow(id, stats, clock))
         /\ ticker_stats_history' =
                Append(ticker_stats_history, TickerStatsRow(id, stats, clock + 1))
         /\ clock' = clock + 2
         /\ UNCHANGED <<tickers, industry_stats, industry_stats_history>>

\* DBWriter.save_ticker_stats: one snapshot row and one history row, one commit.
save_ticker_stats(symbol, stats) ==
    LET found == {i \in 1..Len(tickers) : tickers[i].symbol = symbol} IN
    IF found = {}
    THEN UNCHANGED <<dbVars, clock>>
    ELSE LET id == CHOOSE i \in found : TRUE
             now == clock
         IN /\ ticker_stats' = Append(ticker_stats, TickerStatsRow(id, stats, now))
            /\ ticker_stats_history' =
                   Append(ticker_stats_history, TickerStatsRow(id, stats, now))
            /\ clock' = clock + 1
            /\ UNCHANGED <<tickers, industry_stats, industry_stats_history>>

RECURSIVE GCD(_, _)
GCD(a, b) == IF b = 0 THEN a ELSE GCD(b, a % b)

\* A quotient of two integers (d > 0, n >= 0), kept exact as a reduced fraction.
Quot(n, d) == LET g == GCD(n, d) IN [num |-> n \div g, den |-> d \div g]

\* [x for x in xs if x is not None]
RECURSIVE NonNull(_)
NonNull(xs) ==
    IF xs = <<>> THEN <<>>
    ELSE IF Head(xs) = None THEN NonNull(Tail(xs))
    ELSE <<Head(xs)[1]>> \o NonNull(Tail(xs))

Mean_CountsNulls(xs) ==
    LET v == NonNull(xs) IN
    IF v = <<>> THEN None ELSE Some(Quot(SeqSum(v), Len(xs)))

\* sum(v) / len(v) if v else None
Mean(xs) ==
    LET v == NonNull(xs) IN
    IF v = <<>> THEN None ELSE Some(Quot(SeqSum(v), Len(v)))

\* sum(v) if v else None
Total(xs) ==
    LET v == NonNull(xs) IN
    IF v = <<>> THEN None ELSE Some(SeqSum(v))

\* The distinct non-null industries of tickers, in the order of first
\* appearance.
RECURSIVE Industries(_, _)
Industries(rows, seen) ==
    IF rows = <<>> THEN <<>>
    ELSE IF Head(rows).industry \in seen THEN Industries(Tail(rows), seen)
    ELSE <<Head(rows).industry>> \o Industries(Tail(rows), seen \cup {Head(rows).industry})

\* The ticker_stats rows joined to tickers of one industry.
RECURSIVE StatsOf(_, _)
StatsOf(rows, industry) ==
    IF rows = <<>> THEN <<>>
    ELSE IF tickers[Head(rows).ticker_id].industry = industry
         THEN <<Head(rows)>> \o StatsOf(Tail(rows), industry)
         ELSE StatsOf(Tail(rows), industry)

Column(rows, f) == [i \in 1..Len(rows) |-> rows[i][f]]

IndustryRow(industry, stats, now) ==
    [industry |-> industry,
     avg_pe_ratio |-> Mean(Column(stats, "pe_ratio")),
     avg_revenue_growth |-> Mean(Column(stats, "revenue_growth")),
     sum_revenue |-> Total(Column(stats, "latest_revenue")),
     at |-> now]

\* The rows the loop over the industries adds: none for an industry without
\* ticker_stats rows.
RECURSIVE IndustryRows(_, _)
IndustryRows(inds, now) ==
    IF inds = <<>> THEN <<>>
    ELSE LET stats == StatsOf(ticker_stats, Head(inds)) IN
         (IF stats = <<>> THEN <<>> ELSE <<IndustryRow(Head(inds), stats, now)>>)
         \o IndustryRows(Tail(inds), now)

\* DBWriter.aggregate_industries: every industry's pair of rows, one commit.
aggregate_industries ==
    LET now == clock
        rows == IndustryRows(Industries(tickers, {}), now)
    IN /\ industry_stats' = industry_stats \o rows
       /\ industry_stats_history' = industry_stats_history \o rows
       /\ clock' = clock + 1
       /\ UNCHANGED <<tickers, ticker_stats, ticker_stats_history>>

(***************************************************************************)
(* Calculator.calculate_all                                                *)
(***************************************************************************)

Abs(x) == IF x < 0 THEN -x ELSE x

\* A Python float, kept exact: the fraction n/d (d # 0) in lowest terms with
\* a positive denominator.
Rat(n, d) ==
    LET g == GCD(Abs(n), Abs(d))
        s == IF d < 0 THEN -1 ELSE 1
    IN [num |-> s * (n \div g), den |-> s * (d \div g)]

RatAdd(a, b) == Rat(a.num * b.den + b.num * a.den, a.den * b.den)

RatSub(a, b) == Rat(a.num * b.den - b.num * a.den, a.den * b.den)

\* a / b, b # 0
RatDiv(a, b) == Rat(a.num * b.den, a.den * b.num)

\* The JSON value a row holds under a key: a number, a text that is no
\* number, or no value (the key is missing or holds null; float() raises on
\* both and .get() gives None for both).
JNum(n, d) == [k |-> "num", num |-> n, den |-> d]

JText == [k |-> "text", num |-> 0, den |-> 1]

Absent == [k |-> "absent", num |-> 0, den |-> 1]

\* float(row[key]) raises KeyError, TypeError or ValueError.
float_raises(v) == v.k # "num"

\* float(row[key]) when it does not raise.
float(v) == Rat(v.num, v.den)

\* str(row.get("period", "")).startswith("Q"), over the periods of the data.
StartsWithQ(period) == period \in {"Q1", "Q2", "Q3", "Q4"}

IsQuarter_AnyPeriod(row) == TRUE

IsQuarter(row) == StartsWithQ(row.period)

IsFY(row) == row.period = "FY"

\* list.sort(key=date, reverse=True): descending and stable, so rows of one
\* date keep their input order.
RECURSIVE InsertByDate(_, _)
InsertByDate(sorted, x) ==
    IF sorted = <<>> THEN <<x>>
    ELSE IF Head(sorted).date >= x.date
         THEN <<Head(sorted)>> \o InsertByDate(Tail(sorted), x)
         ELSE <<x>> \o sorted

SortByDateDesc_InputOrder(rows) == rows

RECURSIVE SortByDateDesc(_)
SortByDateDesc(rows) ==
    IF rows = <<>> THEN <<>>
    ELSE InsertByDate(SortByDateDesc(SubSeq(rows, 1, Len(rows) - 1)), rows[Len(rows)])

Raised == [raised |-> TRUE, val |-> None]

Return(v) == [raised |-> FALSE, val |-> v]

\* (rev1 - rev2) / rev2 inside its try: None on any exception and on rev2 = 0.
revenue_growth_of(Q1, Q2) ==
    IF float_raises(Q1.revenue) \/ float_raises(Q2.revenue) THEN None
    ELSE IF float(Q2.revenue).num # 0
         THEN Some(RatDiv(RatSub(float(Q1.revenue), float(Q2.revenue)), float(Q2.revenue)))
         ELSE None

net_income_ttm_of_SharedTry(quarters) ==
    IF float_raises(quarters[1].revenue) \/ float_raises(quarters[2].revenue) THEN None
    ELSE IF \E i \in 1..4 : float_raises(quarters[i].netIncome) THEN None
    ELSE Some(RatAdd(RatAdd(float(quarters[1].netIncome), float(quarters[2].netIncome)),
                     RatAdd(float(quarters[3].netIncome), float(quarters[4].netIncome))))

\* The sum of netIncome over the four quarters inside its try.
net_income_ttm_of(quarters) ==
    IF \E i \in 1..4 : float_raises(quarters[i].netIncome) THEN None
    ELSE Some(RatAdd(RatAdd(float(quarters[1].netIncome), float(quarters[2].netIncome)),
                     RatAdd(float(quarters[3].netIncome), float(quarters[4].netIncome))))

\* totalDebt / totalEquity inside its try: None on any exception and on
\* equity = 0.
debt_ratio_of(FY) ==
    IF float_raises(FY.totalDebt) \/ float_raises(FY.totalEquity) THEN None
    ELSE IF float(FY.totalEquity).num # 0
         THEN Some(RatDiv(float(FY.totalDebt), float(FY.totalEquity)))
         ELSE None

\* latest_price / eps inside its try: None on any exception and on eps = 0.
pe_ratio_of(Q1, latest_price) ==
    IF float_raises(Q1.eps) THEN None
    ELSE IF float(Q1.eps).num # 0
         THEN Some(RatDiv(latest_price, float(Q1.eps)))
         ELSE None

\* float(Q1["revenue"]) if Q1.get("revenue") is not None else None, outside
\* every try: a text that is no number raises ValueError out of calculate_all.
latest_revenue_of(Q1) ==
    IF Q1.revenue.k = "absent" THEN Return(None)
    ELSE IF float_raises(Q1.revenue) THEN Raised
    ELSE Return(Some(float(Q1.revenue)))

\* Steps of calculate_all once the end-of-day body is at hand.
calculate_prices(quarters, FY, eod) ==
    IF eod.shape \in {"none", "empty", "no_stockprice"} THEN Return(None)
    ELSE IF eod.shape \in {"no_data", "not_dict"} THEN Return(None)
    ELSE IF eod.data = <<>> THEN Return(None)
    ELSE IF float_raises(eod.data[Len(eod.data)].close) THEN Return(None)
    ELSE LET latest_price == float(eod.data[Len(eod.data)].close)
             Q1 == quarters[1]
             latest == latest_revenue_of(Q1)
         IN IF latest.raised THEN Raised
            ELSE Return(Some([pe_ratio |-> pe_ratio_of(Q1, latest_price),
                              revenue_growth |-> revenue_growth_of(Q1, quarters[2]),
                              net_income_ttm |-> net_income_ttm_of(quarters),
                              debt_ratio |-> debt_ratio_of(FY),
                              latest_revenue |-> latest.val]))

\* The path ["fundamentals"]["financials"][statement]["data"] of a body: only
\* KeyError is caught, so a value on the path that is no object raises.
statement(resp) ==
    IF resp.shape \in {"none", "empty"} THEN Return(None)
    ELSE IF resp.shape = "no_key" THEN Return(None)
    ELSE IF resp.shape = "not_dict" THEN Raised
    ELSE Return(Some(resp.data))

\* Steps of calculate_all once the balance-sheet body is at hand.
calculate_balance(quarters, balance, eod) ==
    LET bs_data == statement(balance) IN
    IF bs_data.raised THEN Raised
    ELSE IF bs_data.val = None THEN Return(None)
    ELSE LET years == SortByDateDesc(SelectSeq(bs_data.val[1], IsFY)) IN
         IF years = <<>> THEN Return(None)
         ELSE calculate_prices(quarters, years[1], eod)

\* Calculator.calculate_all on the bodies the three requests of one symbol
\* returned: that it raised, or the value it returned (None or the record).
calculate_all(income, balance, eod) ==
    LET inc_data == statement(income) IN
    IF inc_data.raised THEN Raised
    ELSE IF inc_data.val = None THEN Return(None)
    ELSE LET quarters == SortByDateDesc(SelectSeq(inc_data.val[1], IsQuarter)) IN
         IF Len(quarters) < 4 THEN Return(None)
         ELSE calculate_balance(quarters, balance, eod)

(***************************************************************************)
(* Responses handed to calculate_all                                       *)
(***************************************************************************)

Reverse(q) == [i \in 1..Len(q) |-> q[Len(q) + 1 - i]]

\* The input order of rows given oldest first: kept, reversed, or rotated.
Orders == {"oldest_first", "newest_first", "rotated"}

Arrange(rows, order) ==
    IF order = "newest_first" THEN Reverse(rows)
    ELSE IF order = "rotated" /\ Len(rows) >= 3
         THEN SubSeq(rows, 3, Len(rows)) \o SubSeq(rows, 1, 2)
         ELSE rows

QuarterRow(period, date, revenue, netIncome, eps) ==
    [period |-> period, date |-> date, revenue |-> revenue, netIncome |-> netIncome,
     eps |-> eps]

\* Five quarters, oldest first; dates are ISO strings in the data and are
\* numbered here in their order. rev1, eps1 are the newest quarter's revenue
\* and eps, rev2 the revenue of the one before, ni3 the netIncome of the
\* third newest.
QuarterRows(rev1, rev2, ni3, eps1) ==
    << QuarterRow("Q4", 1, JNum(90, 1), JNum(9, 1), JNum(1, 5)),
       QuarterRow("Q1", 2, JNum(100, 1), JNum(10, 1), JNum(1, 4)),
       QuarterRow("Q2", 3, JNum(120, 1), ni3, JNum(3, 10)),
       QuarterRow("Q3", 4, rev2, JNum(15, 1), JNum(2, 5)),
       QuarterRow("Q4", 5, rev1, JNum(20, 1), eps1) >>

\* An annual row of the income statement, newer than every quarter.
IncomeFYRow == QuarterRow("FY", 6, JNum(570, 1), JNum(57, 1), JNum(3, 2))

RevenueValues(base) == {JNum(base, 1), JNum(0, 1), Absent, JText}

NetIncomeValues == {JNum(12, 1), Absent, JText}

EpsValues == {JNum(1, 2), JNum(0, 1), Absent, JText}

Body(shape, data) == [shape |-> shape, data |-> data]

\* A response without usable data: api returned None, an empty object, an
\* object lacking a key of the path, or one with a non-object on the path.
BrokenShapes == {"none", "empty", "no_key", "not_dict"}

\* The income statement with the n newest quarters and the annual row.
IncomeBody(n, order, rev1, rev2, ni3, eps1) ==
    LET all == QuarterRows(rev1, rev2, ni3, eps1) IN
    Body("ok", Arrange(SubSeq(all, Len(all) + 1 - n, Len(all)) \o <<IncomeFYRow>>, order))

BaseIncome(n, order) ==
    IncomeBody(n, order, JNum(200, 1), JNum(150, 1), JNum(12, 1), JNum(1, 2))

BalanceRow(period, date, totalDebt, totalEquity) ==
    [period |-> period, date |-> date, totalDebt |-> totalDebt,
     totalEquity |-> totalEquity]

\* The balance sheet with n annual rows (the newest holds debt and equity)
\* and one quarterly row.
BalanceBody(n, order, debt, equity) ==
    LET all == << BalanceRow("FY", 1, JNum(100, 1), JNum(100, 1)),
                  BalanceRow("FY", 5, debt, equity) >>
    IN Body("ok", Arrange(<<BalanceRow("Q4", 6, JNum(999, 1), JNum(1, 1))>>
                          \o SubSeq(all, Len(all) + 1 - n, Len(all)), order))

DebtValues == {JNum(300, 1), Absent, JText}

EquityValues == {JNum(150, 1), JNum(0, 1), Absent, JText}

BaseBalance == BalanceBody(1, "oldest_first", JNum(300, 1), JNum(150, 1))

Price(close) == [close |-> close]

\* stockprice.data of the end-of-day body.
PriceLists ==
    { <<>>, <<Price(JNum(40, 1)), Price(JNum(50, 1))>>,
      <<Price(JNum(50, 1)), Price(JText)>>, <<Price(JNum(50, 1)), Price(Absent)>> }

EodShapes == {"none", "empty", "no_stockprice", "no_data", "not_dict"}

BaseEod == Body("ok", <<Price(JNum(40, 1)), Price(JNum(50, 1))>>)

Input(income, balance, eod) == [income |-> income, balance |-> balance, eod |-> eod]

IncomeShapes ==
    {Body(s, <<>>) : s \in BrokenShapes}
    \cup {BaseIncome(n, o) : n \in 0..5, o \in Orders}

BalanceShapes ==
    {Body(s, <<>>) : s \in BrokenShapes}
    \cup {BalanceBody(n, o, JNum(300, 1), JNum(150, 1)) :
             n \in 0..2, o \in {"oldest_first", "newest_first"}}

EodBodies ==
    {Body(s, <<>>) : s \in EodShapes} \cup {Body("ok", l) : l \in PriceLists}

\* Every shape of the three responses, with the field values of the sample.
ShapeInputs ==
    {Input(i, b, e) : i \in IncomeShapes, b \in BalanceShapes, e \in EodBodies}

\* Usable responses with every combination of the field values of the income
\* statement, in every input order.
IncomeFieldInputs ==
    {Input(IncomeBody(n, o, rev1, rev2, ni3, eps1), BaseBalance, BaseEod) :
        n \in 4..5, o \in Orders, rev1 \in RevenueValues(200),
        rev2 \in RevenueValues(150), ni3 \in NetIncomeValues, eps1 \in EpsValues}

\* Usable responses with every combination of the field values of both
\* statements, in one input order.
FieldInputs ==
    {Input(IncomeBody(4, "oldest_first", rev1, rev2, ni3, eps1),
           BalanceBody(1, "oldest_first", d, q), BaseEod) :
        rev1 \in RevenueValues(200), rev2 \in RevenueValues(150),
        ni3 \in NetIncomeValues, eps1 \in EpsValues, d \in DebtValues,
        q \in EquityValues}

CalcInputs == ShapeInputs \cup IncomeFieldInputs \cup FieldInputs

(***************************************************************************)
(* One call of calculate_all                                               *)
(***************************************************************************)

CalcInit ==
    /\ c_pc = "idle"
    /\ c_in = Input(BaseIncome(4, "oldest_first"), BaseBalance, BaseEod)
    /\ c_out = Return(None)

\* The worker calls calculate_all(symbol); the api answers its requests.
CalcCall(inp) ==
    /\ c_pc = "idle"
    /\ c_in' = inp
    /\ c_pc' = "called"
    /\ UNCHANGED c_out

CalcReturn ==
    /\ c_pc = "called"
    /\ c_out' = calculate_all(c_in.income, c_in.balance, c_in.eod)
    /\ c_pc' = "done"
    /\ UNCHANGED c_in

(***************************************************************************)
(* DBWriter driven directly, as the writer's test drives it                *)
(***************************************************************************)

\* Bound on the number of calls made against the database.
MaxCalls == 5

\* A record whose metrics are all None (no usable field in the statements).
StatsNull ==
    [pe_ratio |-> None, revenue_growth |-> None, net_income_ttm |-> None,
     debt_ratio |-> None, latest_revenue |-> None]

WriterStats == StatsSamples \cup {StatsNull}

Call(name, symbol, stats) == [name |-> name, symbol |-> symbol, stats |-> stats]

WriterInit ==
    /\ w_calls = 0
    /\ w_op = Call("none", "", StatsNull)
    /\ w_log = <<>>
    /\ w_aggs = <<>>

\* Everything but the database, its clock and the writer's own variables.
writerFrame == <<getVars, calcVars, pc, runs, fetch_workers, calc_workers, symbols,
                 general, fstate, valid, etl_symbols, cstate, results, saved,
                 unauthorized, crash, speedboost_posts, completed_ticker_stats,
                 completed_industry_stats>>

\* A ticker is stored and committed, as the fetcher stores it.
W_AddTicker(symbol, info) ==
    /\ w_calls < MaxCalls
    /\ tickers' = Commit(_store_ticker(Session(tickers), Entry(symbol, info)))
    /\ w_calls' = w_calls + 1
    /\ w_op' = Call("add", symbol, StatsNull)
    /\ w_log' = Append(w_log, "add")
    /\ UNCHANGED w_aggs
    /\ UNCHANGED <<ticker_stats, ticker_stats_history, industry_stats,
                   industry_stats_history, clock, writerFrame>>

W_Clear ==
    /\ w_calls < MaxCalls
    /\ clear_current_tables
    /\ w_calls' = w_calls + 1
    /\ w_op' = Call("clear", "", StatsNull)
    /\ w_log' = Append(w_log, "clear")
    /\ UNCHANGED w_aggs
    /\ UNCHANGED <<clock, writerFrame>>

W_Save(symbol, stats) ==
    /\ w_calls < MaxCalls
    /\ save_ticker_stats(symbol, stats)
    /\ w_calls' = w_calls + 1
    /\ w_op' = Call("save", symbol, stats)
    /\ w_log' = Append(w_log, "save")
    /\ UNCHANGED w_aggs
    /\ UNCHANGED writerFrame

W_Aggregate ==
    /\ w_calls < MaxCalls
    /\ aggregate_industries
    /\ w_calls' = w_calls + 1
    /\ w_op' = Call("aggregate", "", StatsNull)
    /\ w_log' = Append(w_log, "aggregate")
    /\ w_aggs' = Append(w_aggs, SubSeq(industry_stats', Len(industry_stats) + 1,
                                       Len(industry_stats')))
    /\ UNCHANGED writerFrame

(***************************************************************************)
(* enable_speedboost                                                       *)
(***************************************************************************)

\* The configuration modelled: the speed boost is switched on
\* (FIINDO_ENABLE_SPEEDBOOST=true); switched off, the function returns at once.
FIINDO_ENABLE_SPEEDBOOST == TRUE

\* What the POST can come to: status 200, another status, an exception of
\* requests.
SpeedboostOutcomes == {"ok", "status", "exception"}

\* enable_speedboost(): the number of requests it issues and whether it
\* raises; every outcome of the request is logged only.
enable_speedboost(enabled, out) ==
    IF ~enabled THEN [posts |-> 0, raised |-> FALSE]
    ELSE [posts |-> 1, raised |-> FALSE]

(***************************************************************************)
(* run_etl                                                                 *)
(***************************************************************************)

\* The outcome of api.get_symbols(): what _get returned or raised, and for a
\* body its "symbols" list (empty when the key is missing).
SymbolsOutcomes ==
    {[result |-> r, list |-> <<>>] :
        r \in {"none", "unauthorized", "http_error"}}
    \cup {[result |-> "body", list |-> l] : l \in SymbolLists}

\* The states of a submitted task whose worker thread is busy: "running", and
\* "retrying" once a request of its _get was answered by a status that falls
\* through raise_for_status (the loop then requests again at once).
Busy == {"running", "retrying"}

Running(st) == Cardinality({i \in DOMAIN st : st[i] \in Busy})

AllDone_NoWait(st) == TRUE

\* The `with ThreadPoolExecutor` block is left once every future is done.
AllDone(st) == \A i \in DOMAIN st : st[i] = "done"

\* The executor starts the submitted tasks in submission order, at most
\* `size` at a time.
MayStart(st, i, size) ==
    /\ i \in DOMAIN st
    /\ st[i] = "queued"
    /\ \A j \in DOMAIN st : j < i => st[j] # "queued"
    /\ Running(st) < size

fetchLocals == <<symbols, general, fstate, valid>>

calcLocals == <<etl_symbols, cstate, results, saved>>

ghosts == <<completed_ticker_stats, completed_industry_stats>>

config == <<fetch_workers, calc_workers>>

RunInit ==
    /\ tickers = <<>>
    /\ ticker_stats = <<>>
    /\ ticker_stats_history = <<>>
    /\ industry_stats = <<>>
    /\ industry_stats_history = <<>>
    /\ pc = "idle"
    /\ runs = 0
    /\ clock = 0
    /\ fetch_workers = 1
    /\ calc_workers = 1
    /\ symbols = <<>>
    /\ general = <<>>
    /\ fstate = <<>>
    /\ valid = <<>>
    /\ etl_symbols = <<>>
    /\ cstate = <<>>
    /\ results = <<>>
    /\ saved = 0
    /\ unauthorized = FALSE
    /\ crash = ""
    /\ speedboost_posts = 0
    /\ completed_ticker_stats = <<>>
    /\ completed_industry_stats = <<>>

\* A new process calls run_etl.
StartRun ==
    /\ pc \in {"idle", "done", "aborted", "crashed"}
    /\ runs < MaxRuns
    /\ runs' = runs + 1
    /\ pc' = "clear"
    /\ fetch_workers' = 1
    /\ calc_workers' = 1
    /\ symbols' = <<>>
    /\ general' = <<>>
    /\ fstate' = <<>>
    /\ valid' = <<>>
    /\ etl_symbols' = <<>>
    /\ cstate' = <<>>
    /\ results' = <<>>
    /\ saved' = 0
    /\ unauthorized' = FALSE
    /\ crash' = ""
    /\ speedboost_posts' = 0
    /\ UNCHANGED <<unitVars, dbVars, clock, ghosts>>

\* Step 1: writer.clear_current_tables()
Clear ==
    /\ pc = "clear"
    /\ clear_current_tables
    /\ pc' = "symbols"
    /\ UNCHANGED <<unitVars, speedboost_posts, runs, clock, config, fetchLocals, calcLocals, unauthorized,
                   crash, ghosts>>

\* Step 2, fetch_and_filter_symbols up to the submission of the workers:
\* get_symbols raises into run_etl, or gives the list; an empty list returns [].
\* fw is the pool size the environment configures for the executor.
GetSymbols(out, fw) ==
    /\ pc = "symbols"
    /\ IF Raises(out)
       THEN /\ pc' = "crashed"
            /\ crash' = out.result
            /\ unauthorized' = (out.result = "unauthorized")
            /\ UNCHANGED <<fetchLocals, fetch_workers>>
       ELSE /\ symbols' = out.list
            /\ fetch_workers' = IF out.list = <<>> THEN fetch_workers ELSE fw
            /\ fstate' = [i \in 1..Len(out.list) |-> "queued"]
            /\ general' = [i \in 1..Len(out.list) |-> Pending]
            /\ valid' = <<>>
            /\ pc' = IF out.list = <<>> THEN "fetched" ELSE "fetch"
            /\ UNCHANGED <<crash, unauthorized>>
    /\ UNCHANGED <<unitVars, speedboost_posts, dbVars, runs, clock, calc_workers, calcLocals, ghosts>>

\* A pool thread takes the next submitted symbol.
FetchWorkerStart(i) ==
    /\ pc = "fetch"
    /\ MayStart(fstate, i, fetch_workers)
    /\ fstate' = [fstate EXCEPT ![i] = "running"]
    /\ UNCHANGED <<unitVars, speedboost_posts, dbVars, pc, runs, clock, config, symbols, general, valid,
                   calcLocals, unauthorized, crash, ghosts>>

\* The /general request of worker i is answered by a status below 400 other
\* than 200: _get neither returns nor raises and the worker stays in its loop.
FetchWorkerRetry(i) ==
    /\ pc = "fetch"
    /\ i \in DOMAIN fstate
    /\ fstate[i] = "running"
    /\ fstate' = [fstate EXCEPT ![i] = "retrying"]
    /\ UNCHANGED <<unitVars, speedboost_posts, dbVars, pc, runs, clock, config, symbols, general, valid,
                   calcLocals, unauthorized, crash, ghosts>>

FetchWorkerFinish_StoresInWorker(i, out) ==
    /\ pc = "fetch"
    /\ i \in DOMAIN fstate
    /\ fstate[i] \in Busy
    /\ fstate' = [fstate EXCEPT ![i] = "done"]
    /\ general' = [general EXCEPT ![i] = out]
    /\ unauthorized' = (unauthorized \/ out.result = "unauthorized")
    /\ LET res == process_symbol(symbols[i], out) IN
       IF res.raised
       THEN /\ pc' = "crashed"
            /\ crash' = "worker"
            /\ UNCHANGED <<valid, tickers>>
       ELSE /\ valid' = valid \o res.val
            /\ tickers' = IF res.val = None THEN tickers
                          ELSE Commit(_store_ticker(Session(tickers), res.val[1]))
            /\ UNCHANGED <<pc, crash>>
    /\ UNCHANGED <<unitVars, speedboost_posts, ticker_stats, ticker_stats_history,
                   industry_stats, industry_stats_history, runs, clock, config,
                   symbols, calcLocals, ghosts>>

\* The worker of symbol i gets the outcome `out` of its /general request and
\* finishes; as_completed hands its future to the loop, whose fut.result()
\* gives the worker's value, or raises what the worker raised.
FetchWorkerFinish(i, out) ==
    /\ pc = "fetch"
    /\ i \in DOMAIN fstate
    /\ fstate[i] \in Busy
    /\ fstate' = [fstate EXCEPT ![i] = "done"]
    /\ general' = [general EXCEPT ![i] = out]
    /\ unauthorized' = (unauthorized \/ out.result = "unauthorized")
    /\ LET res == process_symbol(symbols[i], out) IN
       IF res.raised
       THEN /\ pc' = "crashed"
            /\ crash' = "worker"
            /\ UNCHANGED valid
       ELSE /\ valid' = valid \o res.val
            /\ UNCHANGED <<pc, crash>>
    /\ UNCHANGED <<unitVars, speedboost_posts, dbVars, runs, clock, config, symbols, calcLocals, ghosts>>

\* The loop over valid with _store_ticker, then self.db.commit(): the batch is
\* committed, or the commit raises and nothing is stored.
StoreTickers ==
    /\ pc = "fetch"
    /\ AllDone(fstate)
    /\ LET sess == StoreAll(Session(tickers), valid) IN
       IF IntegrityError(sess)
       THEN /\ pc' = "crashed"
            /\ crash' = "IntegrityError"
            /\ UNCHANGED tickers
       ELSE /\ tickers' = Commit(sess)
            /\ pc' = "fetched"
            /\ UNCHANGED crash
    /\ UNCHANGED <<unitVars, speedboost_posts, ticker_stats, ticker_stats_history, industry_stats,
                   industry_stats_history, runs, clock, config, fetchLocals, calcLocals,
                   unauthorized, ghosts>>

\* fetch_and_filter_symbols returns valid and its executor is gone; run_etl
\* stops on an empty list, else submits one calculation per entry to an
\* executor of the configured size cw.
FetchReturn(cw) ==
    /\ pc = "fetched"
    /\ etl_symbols' = valid
    /\ symbols' = <<>>
    /\ general' = <<>>
    /\ fstate' = <<>>
    /\ valid' = <<>>
    /\ cstate' = [i \in 1..Len(valid) |-> "queued"]
    /\ pc' = IF valid = <<>> THEN "aborted" ELSE "calc"
    /\ fetch_workers' = 1
    /\ calc_workers' = IF valid = <<>> THEN calc_workers ELSE cw
    /\ UNCHANGED <<unitVars, speedboost_posts, dbVars, runs, clock, results, saved, unauthorized,
                   crash, ghosts>>

CalcWorkerStart(i) ==
    /\ pc = "calc"
    /\ MayStart(cstate, i, calc_workers)
    /\ cstate' = [cstate EXCEPT ![i] = "running"]
    /\ UNCHANGED <<unitVars, speedboost_posts, dbVars, pc, runs, clock, config, fetchLocals, etl_symbols,
                   results, saved, unauthorized, crash, ghosts>>

\* A request of calculation i is answered by a status below 400 other than
\* 200: _get neither returns nor raises and the worker stays in its loop.
CalcWorkerRetry(i) ==
    /\ pc = "calc"
    /\ i \in DOMAIN cstate
    /\ cstate[i] = "running"
    /\ cstate' = [cstate EXCEPT ![i] = "retrying"]
    /\ UNCHANGED <<unitVars, speedboost_posts, dbVars, pc, runs, clock, config, fetchLocals, etl_symbols,
                   results, saved, unauthorized, crash, ghosts>>

\* Calculation i ends after the requests `reqs`; the loop over as_completed
\* skips a future that raised or holds no stats, and collects the others.
CalcWorkerFinish(i, reqs, m) ==
    /\ pc = "calc"
    /\ i \in DOMAIN cstate
    /\ cstate[i] \in Busy
    /\ cstate' = [cstate EXCEPT ![i] = "done"]
    /\ unauthorized' = (unauthorized \/ reqs[Len(reqs)] = "unauthorized")
    /\ LET fut == calc_future(reqs, m) IN
       results' = IF fut.raised \/ fut.val = None THEN results
                  ELSE Append(results, [symbol |-> etl_symbols[i].symbol,
                                        stats |-> fut.val[1]])
    /\ UNCHANGED <<unitVars, speedboost_posts, dbVars, pc, runs, clock, config, fetchLocals, etl_symbols,
                   saved, crash, ghosts>>

CalcDone_NoEarlyReturn ==
    /\ pc = "calc"
    /\ AllDone(cstate)
    /\ pc' = "persist"
    /\ calc_workers' = 1
    /\ UNCHANGED <<unitVars, speedboost_posts, dbVars, runs, clock, fetch_workers,
                   fetchLocals, calcLocals, unauthorized, crash, ghosts>>

\* The pool is drained: run_etl stops when nothing was calculated.
CalcDone ==
    /\ pc = "calc"
    /\ AllDone(cstate)
    /\ pc' = IF results = <<>> THEN "aborted" ELSE "persist"
    /\ calc_workers' = 1
    /\ UNCHANGED <<unitVars, speedboost_posts, dbVars, runs, clock, fetch_workers, fetchLocals, calcLocals,
                   unauthorized, crash, ghosts>>

\* Step 4, one iteration: writer.save_ticker_stats(symbol, stats)
Save ==
    /\ pc = "persist"
    /\ saved < Len(results)
    /\ save_ticker_stats(results[saved + 1].symbol, results[saved + 1].stats)
    /\ saved' = saved + 1
    /\ UNCHANGED <<unitVars, speedboost_posts, pc, runs, config, fetchLocals, etl_symbols, cstate, results,
                   unauthorized, crash, ghosts>>

\* Step 5: writer.aggregate_industries(), and the run is complete.
Aggregate ==
    /\ pc = "persist"
    /\ saved = Len(results)
    /\ aggregate_industries
    /\ pc' = "done"
    /\ completed_ticker_stats' = ticker_stats'
    /\ completed_industry_stats' = industry_stats'
    /\ UNCHANGED <<unitVars, speedboost_posts, runs, config, fetchLocals, calcLocals, unauthorized, crash>>

Init == GetInit /\ RunInit /\ CalcInit /\ WriterInit

Next ==
    \/ StartRun
    \/ Clear
    \/ \E out \in SymbolsOutcomes, fw \in 1..MaxPool : GetSymbols(out, fw)
    \/ \E i \in 1..MaxSymbols : FetchWorkerStart(i)
    \/ \E i \in 1..MaxSymbols : FetchWorkerRetry(i)
    \/ \E i \in 1..MaxSymbols, out \in GeneralOutcomes : FetchWorkerFinish(i, out)
    \/ StoreTickers
    \/ \E cw \in 1..MaxPool : FetchReturn(cw)
    \/ \E i \in 1..MaxSymbols : CalcWorkerStart(i)
    \/ \E i \in 1..MaxSymbols : CalcWorkerRetry(i)
    \/ \E i \in 1..MaxSymbols, reqs \in CalcRequestRuns, m \in StatsSamples :
           CalcWorkerFinish(i, reqs, m)
    \/ CalcDone
    \/ Save
    \/ Aggregate

Spec == Init /\ [][Next]_vars

NextGet ==
    \/ /\ \E m \in 0..MaxRetriesBound, b \in BackoffChoices, rs \in RetrySets :
              GetCall(m, b, rs)
       /\ UNCHANGED <<dbVars, runVars, calcVars, writerVars>>
    \/ /\ \E r \in Responses : GetAttempt(r)
       /\ UNCHANGED <<dbVars, runVars, calcVars, writerVars>>

SpecGet == Init /\ [][NextGet]_vars

NextCalc ==
    \/ /\ \E inp \in CalcInputs : CalcCall(inp)
       /\ UNCHANGED <<getVars, dbVars, runVars, writerVars>>
    \/ /\ CalcReturn
       /\ UNCHANGED <<getVars, dbVars, runVars, writerVars>>

SpecCalc == Init /\ [][NextCalc]_vars

NextWriter ==
    \/ \E symbol \in Symbols, info \in {InfoBank, InfoSoft} : W_AddTicker(symbol, info)
    \/ W_Clear
    \/ \E symbol \in Symbols, stats \in WriterStats : W_Save(symbol, stats)
    \/ W_Aggregate

SpecWriter == Init /\ [][NextWriter]_vars

(***************************************************************************)
(* Claims                                                                  *)
(***************************************************************************)

Last(q) == q[Len(q)]

IsPrefix(p, q) == Len(p) <= Len(q) /\ \A i \in 1..Len(p) : q[i] = p[i]

\* C1: whenever a run has ended (completed, or stopped early on zero symbols
\* or zero results), ticker_stats and industry_stats hold exactly the rows of
\* the most recent run that completed all five steps.
C1_SnapshotIsLastCompletedRun ==
    pc \in {"done", "aborted"} =>
        /\ ticker_stats = completed_ticker_stats
        /\ industry_stats = completed_industry_stats

\* C2: history tables are append-only: every step of the pipeline keeps each
\* row of ticker_stats_history and industry_stats_history in place with its
\* values, so neither table ever shrinks.
C2_HistoryAppendOnly ==
    [][/\ IsPrefix(ticker_stats_history, ticker_stats_history')
       /\ IsPrefix(industry_stats_history, industry_stats_history')]_vars

\* A second run has cleared the snapshots and completed: both history tables
\* still hold the first run's rows besides the second's.
C2_Witness ==
    /\ runs = 2
    /\ pc = "done"
    /\ Len(ticker_stats_history) > Len(ticker_stats)
    /\ Len(industry_stats_history) > Len(industry_stats)

\* C3: after a completed run ticker_stats holds exactly one row per instrument
\* for which metrics were calculated, and no two rows of the same instrument.
C3_OneRowPerInstrument ==
    pc = "done" =>
        /\ \A i, j \in 1..Len(ticker_stats) :
               ticker_stats[i].ticker_id = ticker_stats[j].ticker_id => i = j
        /\ {tickers[ticker_stats[i].ticker_id].symbol : i \in 1..Len(ticker_stats)}
               = {results[i].symbol : i \in 1..Len(results)}

AllRetryable ==
    \A i \in 1..Len(g_log) :
        g_log[i].timeout \/ g_log[i].status \in retry_status_codes

\* C4: while every attempt of a call ends in a retry-set status or a timeout,
\* in any mix, the call never raises, has slept backoff_seconds after each
\* attempt so far, and returns None exactly on attempt max_retries+1, after
\* max_retries sleeps.
C4_RetryExhaustionReturnsNone ==
    (g_pc # "idle" /\ AllRetryable) =>
        /\ g_pc # "raised"
        /\ g_pc = "running" =>
               /\ attempts <= max_retries
               /\ g_sleeps = [i \in 1..attempts |-> backoff_seconds]
        /\ g_pc = "returned" =>
               /\ attempts = max_retries + 1
               /\ g_result = "none"
               /\ g_sleeps = [i \in 1..max_retries |-> backoff_seconds]

\* A call with at least two retries gave up after timeouts and retry-set
\* statuses mixed.
C4_Witness ==
    /\ g_pc = "returned"
    /\ AllRetryable
    /\ max_retries >= 2
    /\ attempts = max_retries + 1
    /\ \E i, j \in 1..Len(g_log) : g_log[i].timeout /\ ~g_log[j].timeout

Unclassified(r) ==
    /\ ~r.timeout
    /\ r.status \notin {200, 404, 401}
    /\ r.status \notin retry_status_codes

\* C5: a response whose status is none of 200, 404, 401 and is not in the
\* retry set makes the call raise on that attempt.
C5_OtherStatusRaises ==
    (g_log # <<>> /\ Unclassified(Last(g_log))) =>
        /\ g_pc = "raised"
        /\ g_result = "http_error"

\* C6: once a request of the run was answered 401, the run is aborted: no
\* calculation, persist or aggregation step follows and no row of any table
\* changes for the rest of the run.
C6_UnauthorizedAbortsRun ==
    [][(unauthorized /\ pc' # "clear") =>
           /\ pc' \notin {"calc", "persist", "done"}
           /\ dbVars' = dbVars]_vars

\* The attempt taken in this step was answered 404.
Answered404 ==
    /\ g_pc = "running"
    /\ attempts' = attempts + 1
    /\ ~Last(g_log').timeout
    /\ Last(g_log').status = 404

ReturnsNoneAtOnce ==
    /\ g_pc' = "returned"
    /\ g_result' = "none"
    /\ g_sleeps' = g_sleeps

\* C7 as stated: a 404 response makes the call return None on that attempt,
\* with no backoff wait and no exception.
C7_NotFoundReturnsNone == [][Answered404 => ReturnsNoneAtOnce]_vars

\* C7 amended: a 404 response makes the call return None on that attempt, with
\* no backoff wait and no exception, when 404 is not in the configured retry
\* set (as with the default {429, 500}).
C7_NotFoundReturnsNoneUnlessRetried ==
    [][(Answered404 /\ 404 \notin retry_status_codes) => ReturnsNoneAtOnce]_vars

\* A call whose retry set does not hold 404 returned None on a 404 that
\* followed an earlier attempt.
C7_Witness ==
    /\ g_pc = "returned"
    /\ g_result = "none"
    /\ Len(g_log) >= 2
    /\ ~Last(g_log).timeout
    /\ Last(g_log).status = 404
    /\ 404 \notin retry_status_codes

\* The first profile entry of the /general answer has a target industry.
Qualifies(out) ==
    /\ out.result = "body"
    /\ ~out.malformed
    /\ out.profile # <<>>
    /\ out.profile[1].industry \in TARGET_INDUSTRIES

Gathered == (pc = "fetch" /\ AllDone(fstate)) \/ pc = "fetched"

FixedResponses ==
    \A i, j \in DOMAIN symbols : symbols[i] = symbols[j] => general[i] = general[j]

\* C8: with one profile response per symbol, the set of symbols the fetch
\* retains is exactly the set of symbols whose first profile entry has a
\* target industry, for every pool size and every completion order.
C8_RetainedSetIsFilter ==
    (Gathered /\ FixedResponses) =>
        {valid[k].symbol : k \in 1..Len(valid)}
            = {symbols[i] : i \in {j \in DOMAIN symbols : Qualifies(general[j])}}

\* Two workers ran side by side and completed in the reverse of the
\* submission order; both symbols were retained.
C8_Witness ==
    /\ pc = "fetched"
    /\ fetch_workers = 2
    /\ Len(symbols) = 2
    /\ Len(valid) = 2
    /\ symbols[1] # symbols[2]
    /\ valid[1].symbol = symbols[2]

WorkerRaised(i) == fstate[i] = "done" /\ (Raises(general[i]) \/ general[i].malformed)

\* C9: a fetch worker whose request or profile walk raises never ends the
\* fetch with its exception, and the finished workers' contributions to valid
\* are exactly the entries of those that qualify: one entry each, none lost,
\* none added.
C9_FailingWorkerDropsOnlyItsSymbol ==
    /\ crash # "worker"
    /\ pc \in {"fetch", "fetched"} =>
           /\ \A i \in DOMAIN fstate :
                  (fstate[i] = "done" /\ Qualifies(general[i])) =>
                      \E k \in 1..Len(valid) :
                          valid[k] = Entry(symbols[i], general[i].profile[1])
           /\ Len(valid) = Cardinality({i \in DOMAIN fstate :
                                           fstate[i] = "done" /\ Qualifies(general[i])})

\* With a pool of one, the first worker raised and the second, run after it,
\* had its symbol retained.
C9_Witness ==
    /\ pc = "fetched"
    /\ fetch_workers = 1
    /\ Len(symbols) = 2
    /\ WorkerRaised(1)
    /\ Qualifies(general[2])
    /\ Len(valid) = 1
    /\ valid[1].symbol = symbols[2]

UniqueSymbols(rows) ==
    \A i, j \in 1..Len(rows) : rows[i].symbol = rows[j].symbol => i = j

\* C10: the ticker insert is idempotent and keyed on symbol: every step keeps
\* each existing tickers row as it is, no symbol ever has two rows, and when a
\* fetch has committed, storing the same entries again inserts nothing.
C10_IdempotentTickerInsert ==
    [][/\ IsPrefix(tickers, tickers')
       /\ UniqueSymbols(tickers')
       /\ pc' = "fetched" =>
              LET again == StoreAll(Session(tickers'), valid') IN
              ~IntegrityError(again) /\ Commit(again) = tickers']_vars

\* A fetch committed while the API reported, for a symbol already stored,
\* an industry other than the stored one.
C10_Witness ==
    /\ pc = "fetched"
    /\ \E k \in 1..Len(valid), i \in 1..Len(tickers) :
           /\ tickers[i].symbol = valid[k].symbol
           /\ tickers[i].industry # valid[k].industry
           /\ tickers[i].company # valid[k].company

\* The call of calculate_all has ended (returned or raised).
CalcEnded == c_pc = "done"

ReturnedNone == ~c_out.raised /\ c_out.val = None

ReturnedRecord == ~c_out.raised /\ c_out.val # None

\* The number of rows of a statement whose period starts with "Q".
QuarterCount(body) ==
    Cardinality({i \in 1..Len(body.data) :
                    body.data[i].period \in {"Q1", "Q2", "Q3", "Q4"}})

FYCount(body) == Cardinality({i \in 1..Len(body.data) : body.data[i].period = "FY"})

NumericNonzero(v) == v.k = "num" /\ v.num # 0

\* Every field the metrics read is a nonzero number: the quarters' revenue,
\* netIncome and eps, the annual rows' totalDebt and totalEquity, the closes.
AllNumericNonzero(inp) ==
    /\ \A i \in 1..Len(inp.income.data) :
           LET row == inp.income.data[i] IN
           NumericNonzero(row.revenue) /\ NumericNonzero(row.netIncome)
               /\ NumericNonzero(row.eps)
    /\ \A i \in 1..Len(inp.balance.data) :
           LET row == inp.balance.data[i] IN
           NumericNonzero(row.totalDebt) /\ NumericNonzero(row.totalEquity)
    /\ \A i \in 1..Len(inp.eod.data) : NumericNonzero(inp.eod.data[i].close)

AllFiveNonNull(rec) ==
    /\ rec.pe_ratio # None
    /\ rec.revenue_growth # None
    /\ rec.net_income_ttm # None
    /\ rec.debt_ratio # None
    /\ rec.latest_revenue # None

\* C11: calculate_all returns None whenever the income statement has fewer
\* than 4 rows whose period starts with "Q", whatever the balance sheet and
\* the price data are; given exactly 4 quarterly rows with numeric nonzero
\* fields, one FY row and a nonempty price series it returns a record whose
\* five fields are all non-null.
C11_FourQuartersRequired ==
    CalcEnded =>
        /\ (c_in.income.shape = "ok" /\ QuarterCount(c_in.income) < 4) => ReturnedNone
        /\ (/\ c_in.income.shape = "ok" /\ QuarterCount(c_in.income) = 4
            /\ c_in.balance.shape = "ok" /\ FYCount(c_in.balance) = 1
            /\ c_in.eod.shape = "ok" /\ c_in.eod.data # <<>>
            /\ AllNumericNonzero(c_in))
           => (ReturnedRecord /\ AllFiveNonNull(c_out.val[1]))

\* Three quarterly rows and an annual row in the income statement, a usable
\* balance sheet and price series: None.
C11_Witness ==
    /\ CalcEnded
    /\ c_in.income.shape = "ok"
    /\ QuarterCount(c_in.income) = 3
    /\ Len(c_in.income.data) = 4
    /\ c_in.balance = BaseBalance
    /\ c_in.eod = BaseEod
    /\ ReturnedNone

\* A statement response that is missing (None, empty) or malformed (a key of
\* the path missing, or a non-object on the path).
Unusable(body) == body.shape # "ok"

\* The price series is empty, or its last entry has no numeric close.
BadPriceSeries(body) ==
    body.shape = "ok"
        /\ (body.data = <<>> \/ body.data[Len(body.data)].close.k # "num")

NewestQuarters(body) ==
    LET idx == {i \in 1..Len(body.data) : body.data[i].period \in {"Q1", "Q2", "Q3", "Q4"}}
        rank(i) == 1 + Cardinality({j \in idx : body.data[j].date > body.data[i].date})
    IN [k \in 1..Cardinality(idx) |-> CHOOSE i \in idx : rank(i) = k]

\* The index of the newest annual row of a balance body.
NewestFY(body) ==
    CHOOSE i \in 1..Len(body.data) :
        /\ body.data[i].period = "FY"
        /\ \A j \in 1..Len(body.data) :
               body.data[j].period = "FY" => body.data[j].date <= body.data[i].date

\* inp with field f of the k-th newest quarter set to v.
WithQuarterField(inp, k, f, v) ==
    [inp EXCEPT !.income.data[NewestQuarters(inp.income)[k]][f] = v]

\* inp with field f of the newest annual balance row set to v.
WithFYField(inp, f, v) ==
    [inp EXCEPT !.balance.data[NewestFY(inp.balance)][f] = v]

\* The record calculate_all returns on inp.
RecordOf(inp) == calculate_all(inp.income, inp.balance, inp.eod).val[1]

\* On inp calculate_all returns a record in which metric `nulled` is None and
\* the other three of the four metrics are as in the record rec.
OnlyNulls(inp, nulled, rec) ==
    LET out == calculate_all(inp.income, inp.balance, inp.eod) IN
    /\ ~out.raised /\ out.val # None
    /\ out.val[1][nulled] = None
    /\ \A f \in {"revenue_growth", "net_income_ttm", "debt_ratio", "pe_ratio"} \ {nulled} :
           out.val[1][f] = rec[f]

\* C13: revenue_growth, net_income_ttm, debt_ratio and pe_ratio are
\* independently nullable: a zero or absent second-quarter revenue, a missing
\* netIncome among the four quarters, a zero or absent totalEquity, a zero or
\* absent latest eps nulls its own metric and leaves the other three at the
\* value they have on the unchanged input.
C13_MetricsIndependentlyNullable ==
    (CalcEnded /\ ReturnedRecord) =>
        LET rec == c_out.val[1] IN
        /\ \A v \in {JNum(0, 1), Absent} :
               /\ OnlyNulls(WithQuarterField(c_in, 2, "revenue", v), "revenue_growth", rec)
               /\ OnlyNulls(WithFYField(c_in, "totalEquity", v), "debt_ratio", rec)
               /\ OnlyNulls(WithQuarterField(c_in, 1, "eps", v), "pe_ratio", rec)
        /\ \A k \in 1..4 :
               OnlyNulls(WithQuarterField(c_in, k, "netIncome", Absent), "net_income_ttm", rec)

\* A call whose record has the four metrics non-null, so that each of the
\* cases nulls one of them.
C13_Witness ==
    /\ CalcEnded
    /\ ReturnedRecord
    /\ \A f \in {"revenue_growth", "net_income_ttm", "debt_ratio", "pe_ratio"} :
           c_out.val[1][f] # None
    /\ Len(c_in.income.data) = 6
    /\ c_in.income.data[1].period = "Q2"

\* The four mandatory preconditions: both statements retrievable, at least
\* four quarterly rows, at least one FY row, a numeric latest close.
MandatoryPreconditions(inp) ==
    /\ inp.income.shape = "ok"
    /\ inp.balance.shape = "ok"
    /\ QuarterCount(inp.income) >= 4
    /\ FYCount(inp.balance) >= 1
    /\ inp.eod.shape = "ok"
    /\ inp.eod.data # <<>>
    /\ inp.eod.data[Len(inp.eod.data)].close.k = "num"

\* C14: once the four mandatory preconditions hold, calculate_all always
\* returns a record and never raises: a missing key or a non-numeric value in
\* revenue, netIncome, eps, totalDebt or totalEquity yields null in that
\* field only (a metric whose own fields are nonzero numbers is not null).
C14_PreconditionsGiveRecord ==
    (CalcEnded /\ MandatoryPreconditions(c_in)) =>
        /\ ReturnedRecord
        /\ LET q == [k \in 1..4 |-> c_in.income.data[NewestQuarters(c_in.income)[k]]]
               fy == c_in.balance.data[NewestFY(c_in.balance)]
               rec == c_out.val[1]
           IN /\ (NumericNonzero(q[1].revenue) /\ NumericNonzero(q[2].revenue))
                     => rec.revenue_growth # None
              /\ (\A k \in 1..4 : q[k].netIncome.k = "num") => rec.net_income_ttm # None
              /\ (NumericNonzero(fy.totalDebt) /\ NumericNonzero(fy.totalEquity))
                     => rec.debt_ratio # None
              /\ NumericNonzero(q[1].eps) => rec.pe_ratio # None
              /\ q[1].revenue.k = "num" => rec.latest_revenue # None

\* The fraction r equals a / b, for numbers a, b held by rows.
IsQuotient(r, a, b) == r.num * a.den * b.num = r.den * a.num * b.den

\* The fraction r equals the sum of the numbers of vs (a sequence of four).
IsSumOfFour(r, vs) ==
    r.num * vs[1].den * vs[2].den * vs[3].den * vs[4].den =
        r.den * (  vs[1].num * vs[2].den * vs[3].den * vs[4].den
                 + vs[2].num * vs[1].den * vs[3].den * vs[4].den
                 + vs[3].num * vs[1].den * vs[2].den * vs[4].den
                 + vs[4].num * vs[1].den * vs[2].den * vs[3].den)

Whole(n) == [num |-> n, den |-> 1]

\* The responses of the example: four quarters with revenue 100, 120, 150,
\* 200 and net income 10, 12, 15, 20 by date, latest eps 0.5, debt 300,
\* equity 150, last close 50.
IsExample(inp) ==
    /\ MandatoryPreconditions(inp)
    /\ QuarterCount(inp.income) = 4
    /\ LET q == [k \in 1..4 |-> inp.income.data[NewestQuarters(inp.income)[k]]]
           fy == inp.balance.data[NewestFY(inp.balance)]
       IN /\ [k \in 1..4 |-> q[k].revenue] =
                 <<JNum(200, 1), JNum(150, 1), JNum(120, 1), JNum(100, 1)>>
          /\ [k \in 1..4 |-> q[k].netIncome] =
                 <<JNum(20, 1), JNum(15, 1), JNum(12, 1), JNum(10, 1)>>
          /\ q[1].eps = JNum(1, 2)
          /\ fy.totalDebt = JNum(300, 1)
          /\ fy.totalEquity = JNum(150, 1)
    /\ inp.eod.data[Len(inp.eod.data)].close = JNum(50, 1)

\* C15: the metrics are computed from the rows selected by date order, not by
\* input order: revenue growth is (newest revenue - second-newest) /
\* second-newest, trailing net income the sum over the four newest quarters,
\* debt ratio totalDebt / totalEquity of the newest FY row, P/E the last close
\* over the newest quarter's eps, latest revenue the newest quarter's revenue;
\* the example gives 50/150, 57, 2, 100 and 200.
C15_MetricsByDateOrder ==
    (CalcEnded /\ ReturnedRecord) =>
        LET q == [k \in 1..4 |-> c_in.income.data[NewestQuarters(c_in.income)[k]]]
            fy == c_in.balance.data[NewestFY(c_in.balance)]
            close == c_in.eod.data[Len(c_in.eod.data)].close
            rec == c_out.val[1]
        IN /\ rec.revenue_growth # None =>
                  IsQuotient(rec.revenue_growth[1],
                             [num |-> q[1].revenue.num * q[2].revenue.den
                                          - q[2].revenue.num * q[1].revenue.den,
                              den |-> q[1].revenue.den * q[2].revenue.den],
                             q[2].revenue)
           /\ rec.net_income_ttm # None =>
                  IsSumOfFour(rec.net_income_ttm[1], [k \in 1..4 |-> q[k].netIncome])
           /\ rec.debt_ratio # None =>
                  IsQuotient(rec.debt_ratio[1], fy.totalDebt, fy.totalEquity)
           /\ rec.pe_ratio # None => IsQuotient(rec.pe_ratio[1], close, q[1].eps)
           /\ rec.latest_revenue # None =>
                  IsQuotient(rec.latest_revenue[1], q[1].revenue, Whole(1))
           /\ IsExample(c_in) =>
                  rec = [pe_ratio |-> Some(Whole(100)),
                         revenue_growth |-> Some([num |-> 1, den |-> 3]),
                         net_income_ttm |-> Some(Whole(57)),
                         debt_ratio |-> Some(Whole(2)),
                         latest_revenue |-> Some(Whole(200))]

\* The example with its rows not in date order: the third-newest quarter
\* comes first in the input.
C15_Witness ==
    /\ CalcEnded
    /\ ReturnedRecord
    /\ IsExample(c_in)
    /\ c_in.income.data[1].period = "Q3"
    /\ c_in.income.data[2].period = "Q4"
    /\ c_out.val[1].revenue_growth = Some([num |-> 1, den |-> 3])

\* The step is a call of the writer named `name`.
WriterStep(name) == w_calls' = w_calls + 1 /\ w_op'.name = name

\* The rows a step appended to a table.
Added(old, new) == SubSeq(new, Len(old) + 1, Len(new))

\* The sum of f over the finite set S of its arguments.
RECURSIVE SetSum(_, _)
SetSum(f, S) ==
    IF S = {} THEN 0
    ELSE LET x == CHOOSE y \in S : TRUE IN f[x] + SetSum(f, S \ {x})

\* The ticker_stats rows (by position) of the tickers of one industry.
RowsOfIndustry(industry) ==
    {j \in 1..Len(ticker_stats) : tickers[ticker_stats[j].ticker_id].industry = industry}

\* v is the unweighted mean of column f over those of the rows S where it is
\* not null, and null when there is none.
IsMeanOf(v, f, S) ==
    LET P == {j \in S : ticker_stats[j][f] # None} IN
    IF P = {} THEN v = None
    ELSE /\ v # None
         /\ v[1].num * Cardinality(P)
                = v[1].den * SetSum([j \in P |-> ticker_stats[j][f][1]], P)

\* v is the sum of column f over those of the rows S where it is not null,
\* and null when there is none.
IsSumOf(v, f, S) ==
    LET P == {j \in S : ticker_stats[j][f] # None} IN
    IF P = {} THEN v = None
    ELSE v = Some(SetSum([j \in P |-> ticker_stats[j][f][1]], P))

\* C16: aggregate_industries writes, for every distinct industry among the
\* stored tickers that has at least one ticker_stats row, exactly one
\* industry_stats row whose avg_pe_ratio and avg_revenue_growth are the
\* unweighted means of the non-null values of that industry's rows (null when
\* there is none) and whose sum_revenue is the sum of the non-null
\* latest_revenue (null when there is none); an industry with no
\* ticker_stats row gets no industry_stats row.
C16_AggregatePerIndustry ==
    [][WriterStep("aggregate") =>
        LET rows == Added(industry_stats, industry_stats') IN
        /\ industry_stats' = industry_stats \o rows
        /\ \A i \in 1..Len(rows) : \E t \in 1..Len(tickers) :
               tickers[t].industry = rows[i].industry
        /\ \A t \in 1..Len(tickers) :
               LET ind == tickers[t].industry
                   S == RowsOfIndustry(ind)
                   hits == {i \in 1..Len(rows) : rows[i].industry = ind}
               IN IF S = {} THEN hits = {}
                  ELSE /\ Cardinality(hits) = 1
                       /\ \A i \in hits :
                              /\ IsMeanOf(rows[i].avg_pe_ratio, "pe_ratio", S)
                              /\ IsMeanOf(rows[i].avg_revenue_growth, "revenue_growth", S)
                              /\ IsSumOf(rows[i].sum_revenue, "latest_revenue", S)
    ]_vars

\* An aggregation over two industries, one without ticker_stats rows, the
\* other with a null pe_ratio among its rows: one row, whose average is over
\* the non-null value alone.
C16_Witness ==
    /\ w_op.name = "aggregate"
    /\ \E a, b \in 1..Len(tickers) : tickers[a].industry # tickers[b].industry
    /\ Len(ticker_stats) = 2
    /\ \E j \in 1..2 : ticker_stats[j].pe_ratio = None
    /\ Len(industry_stats) = 1
    /\ industry_stats[1].avg_pe_ratio = Some([num |-> 10, den |-> 1])
    /\ industry_stats[1].avg_revenue_growth = Some([num |-> 3, den |-> 1])
    /\ industry_stats[1].sum_revenue = Some(400)

\* The last calls made on the writer were, in order, those named in `names`.
LastCalls(names) ==
    /\ Len(w_log) >= Len(names)
    /\ SubSeq(w_log, Len(w_log) - Len(names) + 1, Len(w_log)) = names

\* The industries and values of industry_stats rows, without the timestamp.
Values(rows) ==
    [i \in 1..Len(rows) |->
        [industry |-> rows[i].industry, avg_pe_ratio |-> rows[i].avg_pe_ratio,
         avg_revenue_growth |-> rows[i].avg_revenue_growth,
         sum_revenue |-> rows[i].sum_revenue]]

Metrics == {"pe_ratio", "revenue_growth", "net_income_ttm", "debt_ratio", "latest_revenue"}

\* The positions in tickers of the rows with the symbol.
TickerIds(symbol) == {i \in 1..Len(tickers) : tickers[i].symbol = symbol}

\* C18: every save_ticker_stats call for an existing ticker adds, in one
\* commit, exactly one ticker_stats row and one ticker_stats_history row with
\* the same ticker id, the same five metric values (those of the call) and
\* the same timestamp; every aggregate_industries call adds its
\* industry_stats rows and industry_stats_history rows in pairs with the same
\* industry, values and timestamp.
C18_SnapshotAndHistoryPaired ==
    [][/\ (WriterStep("save") /\ TickerIds(w_op'.symbol) # {}) =>
            /\ Len(ticker_stats') = Len(ticker_stats) + 1
            /\ Len(ticker_stats_history') = Len(ticker_stats_history) + 1
            /\ SubSeq(ticker_stats', 1, Len(ticker_stats)) = ticker_stats
            /\ SubSeq(ticker_stats_history', 1, Len(ticker_stats_history))
                   = ticker_stats_history
            /\ LET row == ticker_stats'[Len(ticker_stats')]
                   hist == ticker_stats_history'[Len(ticker_stats_history')]
               IN /\ row.ticker_id \in TickerIds(w_op'.symbol)
                  /\ hist.ticker_id = row.ticker_id
                  /\ \A f \in Metrics : row[f] = w_op'.stats[f] /\ hist[f] = row[f]
                  /\ hist.at = row.at
            /\ UNCHANGED <<tickers, industry_stats, industry_stats_history>>
       /\ WriterStep("aggregate") =>
            LET rows == Added(industry_stats, industry_stats')
                hist == Added(industry_stats_history, industry_stats_history')
            IN /\ industry_stats' = industry_stats \o rows
               /\ industry_stats_history' = industry_stats_history \o hist
               /\ Len(hist) = Len(rows)
               /\ \A i \in 1..Len(rows) :
                      /\ hist[i].industry = rows[i].industry
                      /\ hist[i].avg_pe_ratio = rows[i].avg_pe_ratio
                      /\ hist[i].avg_revenue_growth = rows[i].avg_revenue_growth
                      /\ hist[i].sum_revenue = rows[i].sum_revenue
                      /\ hist[i].at = rows[i].at
               /\ UNCHANGED <<tickers, ticker_stats, ticker_stats_history>>
    ]_vars

\* A second save for an existing ticker: its snapshot row and its history
\* row are the same, and carry the metrics of the call.
C18_Witness ==
    /\ w_op.name = "save"
    /\ TickerIds(w_op.symbol) # {}
    /\ Len(ticker_stats) = 2
    /\ Len(ticker_stats_history) = 2
    /\ ticker_stats[2] = ticker_stats_history[2]
    /\ ticker_stats[2].pe_ratio = w_op.stats.pe_ratio
    /\ ticker_stats[2].at > ticker_stats[1].at

\* A step emptied a table that held rows.
Emptied(old, new) == old # <<>> /\ new = <<>>

\* C19: clear_current_tables leaves ticker_stats and industry_stats both
\* empty and leaves tickers, ticker_stats_history and industry_stats_history
\* unchanged; it is atomic: no committed state has one of the two snapshot
\* tables emptied and the other not.
C19_ClearBothSnapshotsAtomically ==
    [][/\ WriterStep("clear") =>
            /\ ticker_stats' = <<>>
            /\ industry_stats' = <<>>
            /\ UNCHANGED <<tickers, ticker_stats_history, industry_stats_history>>
       /\ Emptied(ticker_stats, ticker_stats') => industry_stats' = <<>>
       /\ Emptied(industry_stats, industry_stats') => ticker_stats' = <<>>
    ]_vars

\* clear_current_tables has run on a database whose five tables held rows.
C19_Witness ==
    /\ w_op.name = "clear"
    /\ tickers # <<>>
    /\ ticker_stats = <<>>
    /\ industry_stats = <<>>
    /\ ticker_stats_history # <<>>
    /\ industry_stats_history # <<>>

\* C20: save_ticker_stats called with a symbol that has no row in tickers
\* writes nothing to any table (and returns: the step is taken).
C20_UnknownSymbolWritesNothing ==
    [][(WriterStep("save") /\ TickerIds(w_op'.symbol) = {}) => UNCHANGED dbVars]_vars

\* save_ticker_stats has run for a symbol that is not stored, while another
\* symbol is: no table holds a metrics row.
C20_Witness ==
    /\ w_op.name = "save"
    /\ TickerIds(w_op.symbol) = {}
    /\ tickers # <<>>
    /\ ticker_stats = <<>>
    /\ ticker_stats_history = <<>>

\* The run was ended by an exception that left a worker.
CrashedInWorker == pc = "crashed" /\ crash = "worker"

\* A worker whose request was answered by a status that is none of 200, 401,
\* 404 or the retry set is still inside that request.
StuckInRequest ==
    \/ \E i \in DOMAIN fstate : fstate[i] = "retrying"
    \/ \E i \in DOMAIN cstate : cstate[i] = "retrying"

\* C21: an unexpected (unclassified) HTTP status on a per-symbol request never
\* terminates the pipeline: in the fetch phase and in the calculation phase
\* it is caught at the worker boundary, only that symbol is skipped, and the
\* run goes on with the remaining symbols and the later phases; so no worker
\* stays inside the request that was answered so, and no run ends by a
\* worker's exception.
C21_UnexpectedStatusSkipsSymbol == ~CrashedInWorker /\ ~StuckInRequest

\* The run has issued its first symbol request (GET /symbols).
FirstRequestIssued == runs > 0 /\ pc \notin {"clear", "symbols"}

\* C22: when the speed boost option is enabled, a pipeline run issues the
\* enable call exactly once, at pipeline start before the first symbol
\* request (and whatever that call comes to, the run goes on).
C22_SpeedboostOnceAtStart ==
    /\ speedboost_posts <= 1
    /\ FirstRequestIssued =>
           \A out \in SpeedboostOutcomes :
               speedboost_posts = enable_speedboost(FIINDO_ENABLE_SPEEDBOOST, out).posts

\* The position of a phase in the order clear, fetch, calculate, persist,
\* aggregate (fetch: the /symbols request, the workers, the batch commit).
PhaseRank(p) ==
    CASE p = "clear" -> 1
      [] p \in {"symbols", "fetch", "fetched"} -> 2
      [] p = "calc" -> 3
      [] p = "persist" -> 4
      [] p = "done" -> 5
      [] OTHER -> 6

\* Some worker of the pool is queued or busy.
Unfinished(st) == \E i \in DOMAIN st : st[i] # "done"

\* The step starts calculation worker i.
StartsCalculation(i) ==
    /\ i \in DOMAIN cstate'
    /\ cstate'[i] \in {"running", "retrying"}
    /\ (i \notin DOMAIN cstate \/ cstate[i] = "queued")

\* The step is a committed save_ticker_stats call.
SavesTickerStats == Len(ticker_stats_history') > Len(ticker_stats_history)

\* The step is the aggregate_industries call of the run.
Aggregates == pc = "persist" /\ pc' = "done"

\* C23: the phases of one run never overlap and occur in the order clear,
\* fetch, calculate, persist, aggregate: no calculation worker starts before
\* every fetch worker has finished and the ticker batch is committed, no
\* save_ticker_stats call happens before every calculation worker has
\* finished, and aggregate_industries starts only after the last
\* save_ticker_stats has committed.
C23_PhasesInOrder ==
    [][/\ (runs' = runs /\ pc' \notin {"aborted", "crashed"}) =>
              PhaseRank(pc') >= PhaseRank(pc)
       /\ (pc = "symbols" /\ pc' # pc) => (ticker_stats = <<>> /\ industry_stats = <<>>)
       /\ (\E i \in 1..MaxSymbols : StartsCalculation(i)) =>
              /\ ~Unfinished(fstate)
              /\ \A k \in 1..Len(etl_symbols) : \E t \in 1..Len(tickers) :
                     tickers[t].symbol = etl_symbols[k].symbol
       /\ SavesTickerStats => (~Unfinished(fstate) /\ ~Unfinished(cstate))
       /\ Aggregates =>
              /\ ~Unfinished(fstate) /\ ~Unfinished(cstate)
              /\ saved = Len(results)
              /\ Len(ticker_stats) = Len(results)
    ]_vars

\* A completed run whose two calculations ran in a pool of two: both rows
\* saved, the industries aggregated.
C23_Witness ==
    /\ pc = "done"
    /\ Len(cstate) = 2
    /\ Len(results) = 2
    /\ Len(ticker_stats) = 2
    /\ industry_stats # <<>>

\* The step ends the fetch phase or the calculation phase of the run.
EndsFetch == pc = "fetched" /\ pc' # pc

EndsCalculation == pc = "calc" /\ pc' # pc

\* The step is a call of save_ticker_stats or of aggregate_industries.
CallsWriter == pc = "persist" /\ (saved' # saved \/ pc' # pc)

\* C24: when the fetch phase yields zero symbols, or the calculation phase
\* yields zero successful results, run_etl ends the run early without calling
\* save_ticker_stats or aggregate_industries, so that run writes no row to
\* ticker_stats, ticker_stats_history, industry_stats or
\* industry_stats_history.
C24_EarlyEndWritesNothing ==
    [][/\ (EndsFetch /\ valid = <<>>) => (pc' = "aborted" /\ UNCHANGED dbVars)
       /\ (EndsCalculation /\ results = <<>>) => (pc' = "aborted" /\ UNCHANGED dbVars)
       /\ pc = "aborted" => (runs' # runs \/ UNCHANGED dbVars)
       /\ CallsWriter => (etl_symbols # <<>> /\ results # <<>>)
       /\ (runs' = runs /\ pc \in {"symbols", "fetch", "fetched", "calc"}) =>
              UNCHANGED <<ticker_stats, ticker_stats_history, industry_stats,
                          industry_stats_history>>
    ]_vars

\* A run that ended early because no calculation succeeded, after an earlier
\* run had written rows: the histories hold the rows of the earlier run only.
C24_Witness ==
    /\ pc = "aborted"
    /\ runs = 2
    /\ etl_symbols # <<>>
    /\ results = <<>>
    /\ ticker_stats = <<>>
    /\ industry_stats = <<>>
    /\ ticker_stats_history # <<>>
    /\ Len(ticker_stats_history) = Len(completed_ticker_stats)
    /\ Len(industry_stats_history) = Len(completed_industry_stats)

\* A thread of the fetch pool or of the calculation pool is at work.
WorkerBusy(st) == \E i \in DOMAIN st : st[i] \in {"running", "retrying"}

\* The step is one of a worker thread: a submitted task changes its state.
WorkerStep ==
    \/ (pc = "fetch" /\ DOMAIN fstate' = DOMAIN fstate /\ fstate' # fstate)
    \/ (pc = "calc" /\ DOMAIN cstate' = DOMAIN cstate /\ cstate' # cstate)

\* The step commits a storage transaction.
Writes == dbVars' # dbVars

\* C25: storage is written by one thread at a time: fetch workers and
\* calculation workers never write the database; the ticker inserts, the
\* save_ticker_stats calls and the aggregation are issued serially by the
\* orchestrating thread, each while no worker thread is at work, so no two
\* storage transactions are in progress concurrently within a run.
C25_OrchestratorAloneWrites ==
    [][/\ WorkerStep => ~Writes
       /\ Writes =>
              /\ ~WorkerBusy(fstate) /\ ~WorkerBusy(cstate)
              /\ ~WorkerBusy(fstate') /\ ~WorkerBusy(cstate')
              /\ pc \in {"clear", "fetch", "persist"}
    ]_vars

\* The ticker batch of a fetch whose two workers ran side by side has been
\* committed by the orchestrator.
C25_Witness ==
    /\ pc = "fetched"
    /\ fetch_workers = 2
    /\ Len(fstate) = 2
    /\ Len(valid) = 2
    /\ Len(tickers) = 2

\* C26: every _get call terminates after at most max_retries + 1 requests,
\* for every sequence of outcomes (any status codes and timeouts): no call
\* issues a request beyond the (max_retries + 1)-th.
C26_GetEndsWithinRetries == attempts <= max_retries + 1

\* The symbol s was retained more than once by the fetch.
RetainedTwice(s) ==
    Cardinality({k \in 1..Len(valid) : valid[k].symbol = s}) >= 2

\* The step is the store loop and commit that end fetch_and_filter_symbols.
CommitsBatch == pc = "fetch" /\ AllDone(fstate) /\ pc' # "fetch"

\* C27: when the /symbols list names the same qualifying symbol more than
\* once, fetch_and_filter_symbols still commits successfully and tickers ends
\* with exactly one row for that symbol.
C27_DuplicateSymbolStoredOnce ==
    [][\A s \in Symbols :
           (CommitsBatch /\ RetainedTwice(s)) =>
               /\ pc' = "fetched"
               /\ Cardinality({i \in 1..Len(tickers') :
                                  tickers'[i].symbol = s}) = 1]_vars

====
